---- MODULE Spec2Model ----
(***************************************************************************)
(* floppy_copy.py: copy the pictures of a floppy disk to a target          *)
(* directory under timestamp names, then optionally wipe the disk.         *)
(*                                                                         *)
(* The script is one sequential run; pc is the position of that run in the *)
(* script.  File names and paths are strings, built as the script builds   *)
(* them.  A file's st_mtime is kept as a day number and a second of that   *)
(* day (st_mtime = day * 86400 + sec) so that dates beyond 2038 stay within*)
(* the integers of the model checker; the local time zone is UTC.          *)
(***************************************************************************)
EXTENDS Integers, Sequences, FiniteSets, TLC

VARIABLES
    pc,               \* position of the run in the script
    wipe_flag,        \* args.wipe
    uid,              \* os.getuid()
    source_dir,       \* entries of the source directory, in listing order
    target_dir,       \* names of the entries of the target directory
    pictures_paths,   \* result of find_pictures
    target_dir_files, \* create_target_filenames: names listed at line 60
    new_names,        \* create_target_filenames: the dict, as <<path, name>> pairs in insertion order
    success_paths,    \* copy_files
    fail_paths,       \* copy_files
    pos,              \* index of the current iteration of the running for loop
    raised,           \* the exception that ended the run, with its notes
    answer,           \* <<>> before the prompt, <<typed characters>> after it
    listed,           \* wipe_disk: os.listdir(disk_path) as logged at line 134
    log,              \* warnings and the wipe messages, in order
    copy_calls,       \* calls of shutil.copy2 made so far, each with what it did
    chown_calls,      \* calls of os.chown made so far, each with what it did
    remove_calls      \* calls of shutil.rmtree / os.remove made so far

vars == << pc, wipe_flag, uid, source_dir, target_dir, pictures_paths,
           target_dir_files, new_names, success_paths, fail_paths, pos, raised,
           answer, listed, log, copy_calls, chown_calls, remove_calls >>

-----------------------------------------------------------------------------
(* Bounds and input sets *)

MaxPictures == 2

RootUid == 0
ChownId == 1000

SourceDirPath == "/mnt/floppy"
TargetDirPath == "/home/user/pictures"

\* Modification times: 2001-01-01 12:00:00, 2101-01-01 12:00:00 and
\* 1980-01-01 00:00:00 (FAT keeps dates from 1980 to 2107).
MTimes ==
    { [day |-> 11323, sec |-> 43200],
      [day |-> 47847, sec |-> 43200],
      [day |-> 3652,  sec |-> 0] }

Extensions == { <<".", "j", "p", "g">>, <<".", "J", "P", "G">> }

\* What the target directory may hold when the run starts.
TargetContents ==
    { {},
      {"010101_120000.jpg", "010101_120000_1.jpg"},
      {"010101_120000.jpg", "010101_120000.JPG", "README"} }

\* What path.stat().st_mtime may do.
StatOutcomes == { "ok", "OSError", "AttributeError" }

\* What the user may type at the prompt.
Inputs == { <<"y", "e", "s">>, <<"Y", "E", "s">>, <<"n", "o">>, <<"y">> }

-----------------------------------------------------------------------------
(* Strings and paths *)

UpperCase == << "A", "B", "C", "D", "E", "F", "G", "H", "I", "J", "K", "L", "M",
                "N", "O", "P", "Q", "R", "S", "T", "U", "V", "W", "X", "Y", "Z" >>
LowerCase == << "a", "b", "c", "d", "e", "f", "g", "h", "i", "j", "k", "l", "m",
                "n", "o", "p", "q", "r", "s", "t", "u", "v", "w", "x", "y", "z" >>

\* str.lower() of one character
LowerChar(c) ==
    IF \E k \in 1..26 : UpperCase[k] = c
    THEN LowerCase[CHOOSE k \in 1..26 : UpperCase[k] = c]
    ELSE c

\* str.lower() of a string given as its characters
Lower(chars) == [k \in 1..Len(chars) |-> LowerChar(chars[k])]

\* the string of a sequence of characters
RECURSIVE Join(_)
Join(chars) == IF chars = <<>> THEN "" ELSE Head(chars) \o Join(Tail(chars))

\* pathlib: directory / name
PathJoin(dir, name) == dir \o "/" \o name

\* A directory entry: its name is stem \o suffix (pathlib's Path.suffix).
Entry(stem, suffix, kind, mtime) ==
    [stem |-> stem, suffix |-> suffix, kind |-> kind, mtime |-> mtime]

EntryName(e) == e.stem \o Join(e.suffix)

EntryPath(e) == PathJoin(SourceDirPath, EntryName(e))

PictureStem(k) == "MVC-00" \o ToString(k) \o "F"

\* Entries of the disk that are no pictures.
OtherEntries ==
    << Entry("NOTES", <<".", "T", "X", "T">>, "file", [day |-> 3652, sec |-> 0]),
       Entry("BACKUP", <<>>, "dir", [day |-> 3652, sec |-> 0]) >>

\* the entry of the source directory a path names
EntryAt(path) == CHOOSE k \in 1..Len(source_dir) : EntryPath(source_dir[k]) = path

Range(s) == { s[k] : k \in 1..Len(s) }

\* glob("*.jpg", case_sensitive=False) on one entry
MatchesJpg(e) == Lower(e.suffix) = <<".", "j", "p", "g">>

NoError == [type |-> "none", notes |-> <<>>]

-----------------------------------------------------------------------------
(* datetime.fromtimestamp(file_mtime).strftime("%y%m%d_%H%M%S") *)

\* the civil date of a day number counted from 1970-01-01
fromtimestamp(mtime) ==
    LET z   == mtime.day + 719468
        era == z \div 146097
        doe == z - era * 146097
        yoe == (doe - doe \div 1460 + doe \div 36524 - doe \div 146096) \div 365
        doy == doe - (365 * yoe + yoe \div 4 - yoe \div 100)
        mp  == (5 * doy + 2) \div 153
        d   == doy - (153 * mp + 2) \div 5 + 1
        m   == IF mp < 10 THEN mp + 3 ELSE mp - 9
        y   == yoe + era * 400 + (IF m <= 2 THEN 1 ELSE 0)
    IN  [year |-> y, month |-> m, day |-> d,
         hour |-> mtime.sec \div 3600,
         minute |-> (mtime.sec % 3600) \div 60,
         second |-> mtime.sec % 60]

\* a number as two decimal digits
Pad2(n) == IF n < 10 THEN "0" \o ToString(n) ELSE ToString(n)

strftime(dt) ==
    Pad2(dt.year % 100) \o Pad2(dt.month) \o Pad2(dt.day) \o "_" \o
    Pad2(dt.hour) \o Pad2(dt.minute) \o Pad2(dt.second)

\* extract_timestamp when stat() succeeds
extract_timestamp(path) == strftime(fromtimestamp(source_dir[EntryAt(path)].mtime))

-----------------------------------------------------------------------------
(* create_target_filenames: the name of one candidate *)

\* new_names.values()
Values(names) == { names[k][2] : k \in 1..Len(names) }

\* Variant of line 69 that forgets the entries of the target directory.
InUse_OnlyAssigned(new_filename, names, dir_files) ==
    new_filename \in Values(names)

\* Variant of line 69 that forgets the names assigned earlier in the run.
InUse_OnlyDirectory(new_filename, names, dir_files) ==
    new_filename \in dir_files

\* the condition of the while loop at line 69
InUse(new_filename, names, dir_files) ==
    new_filename \in Values(names) \/ new_filename \in dir_files

\* line 71
Suffixed(timestamp, i, extension) == timestamp \o "_" \o ToString(i) \o extension

\* the while loop of lines 69-71, entered with the name of counter i
RECURSIVE WhileInUse(_, _, _, _, _, _)
WhileInUse(new_filename, i, timestamp, extension, names, dir_files) ==
    IF InUse(new_filename, names, dir_files)
    THEN WhileInUse(Suffixed(timestamp, i + 1, extension), i + 1,
                    timestamp, extension, names, dir_files)
    ELSE new_filename

\* Variant of lines 68-71 whose counter starts at 1, so the first suffix is _2.
NewFilename_CounterFromOne(timestamp, extension, names, dir_files) ==
    IF InUse(timestamp \o extension, names, dir_files)
    THEN WhileInUse(Suffixed(timestamp, 2, extension), 2,
                    timestamp, extension, names, dir_files)
    ELSE timestamp \o extension

\* lines 66-71
NewFilename(timestamp, extension, names, dir_files) ==
    WhileInUse(timestamp \o extension, 0, timestamp, extension, names, dir_files)

-----------------------------------------------------------------------------
(* The run *)

Init ==
    /\ pc = "check_privileges"
    /\ wipe_flag \in BOOLEAN
    /\ uid \in {RootUid, ChownId}
    /\ \E n \in 0..MaxPictures :
       \E ext \in [1..n -> Extensions], mt \in [1..n -> MTimes], others \in {<<>>, OtherEntries} :
          source_dir = [k \in 1..n |-> Entry(PictureStem(k), ext[k], "file", mt[k])] \o others
    /\ target_dir \in TargetContents
    /\ pictures_paths = <<>>
    /\ target_dir_files = {}
    /\ new_names = <<>>
    /\ success_paths = <<>>
    /\ fail_paths = <<>>
    /\ pos = 0
    /\ raised = NoError
    /\ answer = <<>>
    /\ listed = <<>>
    /\ log = <<>>
    /\ copy_calls = <<>>
    /\ chown_calls = <<>>
    /\ remove_calls = <<>>

\* lines 217-222
CheckPrivileges ==
    /\ pc = "check_privileges"
    /\ IF wipe_flag /\ uid # RootUid
       THEN /\ raised' = [type |-> "PermissionError", notes |-> <<>>]
            /\ pc' = "aborted"
       ELSE /\ pc' = "find_pictures"
            /\ UNCHANGED raised
    /\ UNCHANGED << wipe_flag, uid, source_dir, target_dir, pictures_paths,
                    target_dir_files, new_names, success_paths, fail_paths, pos,
                    answer, listed, log, copy_calls, chown_calls, remove_calls >>

\* find_pictures, and the listing of the target directory at lines 60-61
FindPictures ==
    /\ pc = "find_pictures"
    /\ pictures_paths' = [k \in 1..Len(SelectSeq(source_dir, MatchesJpg)) |->
                              EntryPath(SelectSeq(source_dir, MatchesJpg)[k])]
    /\ target_dir_files' = target_dir
    /\ new_names' = <<>>
    /\ pos' = 1
    /\ pc' = "create_target_filenames"
    /\ UNCHANGED << wipe_flag, uid, source_dir, target_dir, success_paths,
                    fail_paths, raised, answer, listed, log, copy_calls,
                    chown_calls, remove_calls >>

\* one iteration of the for loop of lines 63-73
NameStep ==
    /\ pc = "create_target_filenames"
    /\ pos <= Len(pictures_paths)
    /\ LET filepath == pictures_paths[pos]
           extension == Join(source_dir[EntryAt(filepath)].suffix)
       IN \E outcome \in StatOutcomes :
            CASE outcome = "ok" ->
                   /\ new_names' = Append(new_names,
                          << filepath,
                             NewFilename(extract_timestamp(filepath), extension,
                                         new_names, target_dir_files) >>)
                   /\ pos' = pos + 1
                   /\ UNCHANGED << pc, raised >>
              [] outcome = "AttributeError" ->
                   /\ raised' = [type |-> "AttributeError",
                                 notes |-> << "Metadata of " \o filepath \o
                                              " does not include required timestamp" >>]
                   /\ pc' = "aborted"
                   /\ UNCHANGED << new_names, pos >>
              [] outcome = "OSError" ->
                   /\ raised' = [type |-> "OSError", notes |-> <<>>]
                   /\ pc' = "aborted"
                   /\ UNCHANGED << new_names, pos >>
    /\ UNCHANGED << wipe_flag, uid, source_dir, target_dir, pictures_paths,
                    target_dir_files, success_paths, fail_paths, answer, listed,
                    log, copy_calls, chown_calls, remove_calls >>

\* Variant of line 75 with the return inside the for loop.
NameReturn_InsideLoop ==
    /\ pc = "create_target_filenames"
    /\ pos > 1
    /\ success_paths' = <<>>
    /\ fail_paths' = <<>>
    /\ pos' = 1
    /\ pc' = "copy_files"
    /\ UNCHANGED << wipe_flag, uid, source_dir, target_dir, pictures_paths,
                    target_dir_files, new_names, raised, answer, listed, log,
                    copy_calls, chown_calls, remove_calls >>

\* the return of create_target_filenames (line 75) and the start of copy_files (line 93)
NameReturn ==
    /\ pc = "create_target_filenames"
    /\ pos > Len(pictures_paths)
    /\ success_paths' = <<>>
    /\ fail_paths' = <<>>
    /\ pos' = 1
    /\ pc' = "copy_files"
    /\ UNCHANGED << wipe_flag, uid, source_dir, target_dir, pictures_paths,
                    target_dir_files, new_names, raised, answer, listed, log,
                    copy_calls, chown_calls, remove_calls >>

\* Variant of lines 98-100 that logs a failed copy without recording it.
CopyStep_DropFailure ==
    /\ pc = "copy_files"
    /\ pos <= Len(new_names)
    /\ LET filepath == new_names[pos][1]
           new_name == new_names[pos][2]
           dst      == PathJoin(TargetDirPath, new_name)
       IN \E copied \in BOOLEAN :
            /\ copy_calls' = Append(copy_calls,
                   [src |-> filepath, dst |-> dst,
                    result |-> IF copied THEN "returned" ELSE "raised"])
            /\ IF copied
               THEN /\ success_paths' = Append(success_paths, dst)
                    /\ target_dir' = target_dir \cup {new_name}
                    /\ UNCHANGED << fail_paths, log >>
               ELSE /\ log' = Append(log, "error: copy")
                    /\ UNCHANGED << success_paths, fail_paths, target_dir >>
    /\ pos' = pos + 1
    /\ UNCHANGED << pc, wipe_flag, uid, source_dir, pictures_paths,
                    target_dir_files, new_names, raised, answer, listed,
                    chown_calls, remove_calls >>

\* Variant of lines 95-100 with the try around the whole for loop: the first
\* failed copy ends the pass.
CopyStep_AbortOnError ==
    /\ pc = "copy_files"
    /\ pos <= Len(new_names)
    /\ LET filepath == new_names[pos][1]
           new_name == new_names[pos][2]
           dst      == PathJoin(TargetDirPath, new_name)
       IN \E copied \in BOOLEAN :
            /\ copy_calls' = Append(copy_calls,
                   [src |-> filepath, dst |-> dst,
                    result |-> IF copied THEN "returned" ELSE "raised"])
            /\ IF copied
               THEN /\ success_paths' = Append(success_paths, dst)
                    /\ target_dir' = target_dir \cup {new_name}
                    /\ pos' = pos + 1
                    /\ UNCHANGED << fail_paths, log >>
               ELSE /\ fail_paths' = Append(fail_paths, filepath)
                    /\ log' = Append(log, "error: copy")
                    /\ pos' = Len(new_names) + 1
                    /\ UNCHANGED << success_paths, target_dir >>
    /\ UNCHANGED << pc, wipe_flag, uid, source_dir, pictures_paths,
                    target_dir_files, new_names, raised, answer, listed,
                    chown_calls, remove_calls >>

\* one iteration of the for loop of lines 95-100; shutil.copy2 returns its destination
CopyStep ==
    /\ pc = "copy_files"
    /\ pos <= Len(new_names)
    /\ LET filepath == new_names[pos][1]
           new_name == new_names[pos][2]
           dst      == PathJoin(TargetDirPath, new_name)
       IN \E copied \in BOOLEAN :
            /\ copy_calls' = Append(copy_calls,
                   [src |-> filepath, dst |-> dst,
                    result |-> IF copied THEN "returned" ELSE "raised"])
            /\ IF copied
               THEN /\ success_paths' = Append(success_paths, dst)
                    /\ target_dir' = target_dir \cup {new_name}
                    /\ UNCHANGED << fail_paths, log >>
               ELSE /\ fail_paths' = Append(fail_paths, filepath)
                    /\ log' = Append(log, "error: copy")
                    /\ UNCHANGED << success_paths, target_dir >>
    /\ pos' = pos + 1
    /\ UNCHANGED << pc, wipe_flag, uid, source_dir, pictures_paths,
                    target_dir_files, new_names, raised, answer, listed,
                    chown_calls, remove_calls >>

\* the summary of lines 102-113, up to the try of line 115
CopySummary ==
    /\ pc = "copy_files"
    /\ pos > Len(new_names)
    /\ log' = IF fail_paths # <<>> THEN Append(log, "error: failed to copy") ELSE log
    /\ pos' = 1
    /\ pc' = "chown"
    /\ UNCHANGED << wipe_flag, uid, source_dir, target_dir, pictures_paths,
                    target_dir_files, new_names, success_paths, fail_paths,
                    raised, answer, listed, copy_calls, chown_calls, remove_calls >>

\* Variant of lines 118-120 that raises again after adding the note.
ChownStep_Raise ==
    /\ pc = "chown"
    /\ pos <= Len(success_paths)
    /\ \E changed \in BOOLEAN :
         /\ chown_calls' = Append(chown_calls,
                [path |-> success_paths[pos], uid |-> ChownId, gid |-> ChownId,
                 result |-> IF changed THEN "returned" ELSE "raised"])
         /\ IF changed
            THEN /\ pos' = pos + 1
                 /\ UNCHANGED << pc, log, raised >>
            ELSE /\ raised' = [type |-> "OSError",
                               notes |-> << "Could not set ownership to the target files, continuing anyway." >>]
                 /\ pc' = "aborted"
                 /\ UNCHANGED << pos, log >>
    /\ UNCHANGED << wipe_flag, uid, source_dir, target_dir, pictures_paths,
                    target_dir_files, new_names, success_paths, fail_paths,
                    answer, listed, copy_calls, remove_calls >>

\* one iteration of the for loop of lines 116-117, inside the try of lines 115-120
ChownStep ==
    /\ pc = "chown"
    /\ pos <= Len(success_paths)
    /\ \E changed \in BOOLEAN :
         /\ chown_calls' = Append(chown_calls,
                [path |-> success_paths[pos], uid |-> ChownId, gid |-> ChownId,
                 result |-> IF changed THEN "returned" ELSE "raised"])
         /\ IF changed
            THEN /\ pos' = pos + 1
                 /\ UNCHANGED << pc, log >>
            ELSE /\ log' = Append(log, "warning: Could not set ownership to the target files, continuing anyway.")
                 /\ pc' = "decide"
                 /\ UNCHANGED pos
    /\ UNCHANGED << wipe_flag, uid, source_dir, target_dir, pictures_paths,
                    target_dir_files, new_names, success_paths, fail_paths,
                    raised, answer, listed, copy_calls, remove_calls >>

\* the end of the chown loop and the return of line 122
CopyReturn ==
    /\ pc = "chown"
    /\ pos > Len(success_paths)
    /\ pc' = "decide"
    /\ UNCHANGED << wipe_flag, uid, source_dir, target_dir, pictures_paths,
                    target_dir_files, new_names, success_paths, fail_paths, pos,
                    raised, answer, listed, log, copy_calls, chown_calls,
                    remove_calls >>

\* Variant of lines 229-233 without the test of fail_paths.
Decide_IgnoreFailures ==
    /\ pc = "decide"
    /\ pc' = IF wipe_flag THEN "wipe_disk" ELSE "done"
    /\ UNCHANGED << wipe_flag, uid, source_dir, target_dir, pictures_paths,
                    target_dir_files, new_names, success_paths, fail_paths, pos,
                    raised, answer, listed, log, copy_calls, chown_calls,
                    remove_calls >>

\* lines 229-233
Decide ==
    /\ pc = "decide"
    /\ IF wipe_flag
       THEN IF fail_paths # <<>>
            THEN /\ log' = Append(log, "warning: Aborting wiping the disk - some files were not copied")
                 /\ pc' = "done"
            ELSE /\ pc' = "wipe_disk"
                 /\ UNCHANGED log
       ELSE /\ pc' = "done"
            /\ UNCHANGED log
    /\ UNCHANGED << wipe_flag, uid, source_dir, target_dir, pictures_paths,
                    target_dir_files, new_names, success_paths, fail_paths, pos,
                    raised, answer, listed, copy_calls, chown_calls, remove_calls >>

\* Variant of line 137 that accepts every input starting with y.
Confirmed_StartsWithY(typed) == typed # <<>> /\ Head(Lower(typed)) = "y"

\* the condition of line 137
Confirmed(typed) == Lower(typed) = <<"y", "e", "s">>

\* wipe_disk up to the prompt: lines 132-137 and 145-146
WipePrompt ==
    /\ pc = "wipe_disk"
    /\ listed' = [k \in 1..Len(source_dir) |-> EntryName(source_dir[k])]
    /\ \E typed \in Inputs :
         /\ answer' = << typed >>
         /\ IF Confirmed(typed)
            THEN /\ pc' = "wipe_loop"
                 /\ UNCHANGED log
            ELSE /\ log' = Append(log, "info: Nothing has been removed")
                 /\ pc' = "done"
    /\ UNCHANGED << wipe_flag, uid, source_dir, target_dir, pictures_paths,
                    target_dir_files, new_names, success_paths, fail_paths, pos,
                    raised, copy_calls, chown_calls, remove_calls >>

\* one iteration of the for loop of lines 138-143
WipeStep ==
    /\ pc = "wipe_loop"
    /\ source_dir # <<>>
    /\ remove_calls' = Append(remove_calls,
           << IF Head(source_dir).kind = "dir" THEN "rmtree" ELSE "remove",
              EntryPath(Head(source_dir)) >>)
    /\ source_dir' = Tail(source_dir)
    /\ UNCHANGED << pc, wipe_flag, uid, target_dir, pictures_paths,
                    target_dir_files, new_names, success_paths, fail_paths, pos,
                    raised, answer, listed, log, copy_calls, chown_calls >>

\* the end of the loop of line 138
WipeReturn ==
    /\ pc = "wipe_loop"
    /\ source_dir = <<>>
    /\ pc' = "done"
    /\ UNCHANGED << wipe_flag, uid, source_dir, target_dir, pictures_paths,
                    target_dir_files, new_names, success_paths, fail_paths, pos,
                    raised, answer, listed, log, copy_calls, chown_calls,
                    remove_calls >>

Next ==
    \/ CheckPrivileges
    \/ FindPictures
    \/ NameStep
    \/ NameReturn
    \/ CopyStep
    \/ CopySummary
    \/ ChownStep
    \/ CopyReturn
    \/ Decide
    \/ WipePrompt
    \/ WipeStep
    \/ WipeReturn

Spec == Init /\ [][Next]_vars

-----------------------------------------------------------------------------
(* Notions the properties are stated with *)

\* create_target_filenames is running or has just returned its mapping
NamingOrReturned ==
    \/ pc = "create_target_filenames"
    \/ (pc = "copy_files" /\ copy_calls = <<>>)

AfterCopyPass == pc \in {"chown", "decide", "wipe_disk", "wipe_loop", "done"}

AfterCopyFiles == pc \in {"decide", "wipe_disk", "wipe_loop", "done"}

CandidatePath(k) == new_names[k][1]
AssignedName(k) == new_names[k][2]
CandidateEntry(k) == source_dir[EntryAt(CandidatePath(k))]
CandidateMTime(k) == CandidateEntry(k).mtime
CandidateExtension(k) == Join(CandidateEntry(k).suffix)
CandidateTimestamp(k) == extract_timestamp(CandidatePath(k))
CandidateBase(k) == CandidateTimestamp(k) \o CandidateExtension(k)

\* the names candidate k must avoid: the entries the target directory had
\* when naming started and the names given to the candidates before it
TakenBefore(k) == target_dir_files \cup { AssignedName(j) : j \in 1..(k - 1) }

\* more suffixes than the run can use up
SuffixRange == 1..(Len(pictures_paths) + Cardinality(target_dir_files) + 1)

\* the number in the suffix of candidate k's name, 0 for a name without suffix
SuffixNumber(k) ==
    IF AssignedName(k) = CandidateBase(k) THEN 0
    ELSE CHOOSE i \in SuffixRange :
           AssignedName(k) = Suffixed(CandidateTimestamp(k), i, CandidateExtension(k))

\* the rule of the smallest free suffix, for candidate k
SmallestFreeName(k) ==
    IF CandidateBase(k) \notin TakenBefore(k)
    THEN AssignedName(k) = CandidateBase(k)
    ELSE \E i \in SuffixRange :
           /\ AssignedName(k) = Suffixed(CandidateTimestamp(k), i, CandidateExtension(k))
           /\ AssignedName(k) \notin TakenBefore(k)
           /\ \A j \in 1..(i - 1) :
                Suffixed(CandidateTimestamp(k), j, CandidateExtension(k)) \in TakenBefore(k)

\* a candidate whose base name is in the target directory, with the name of
\* suffix _1 free, gets the name of suffix _1
FirstSuffixExample(k) ==
    ( /\ CandidateBase(k) \in target_dir_files
      /\ Suffixed(CandidateTimestamp(k), 1, CandidateExtension(k)) \notin TakenBefore(k) )
    => AssignedName(k) = Suffixed(CandidateTimestamp(k), 1, CandidateExtension(k))

NoPreExistingCollision ==
    \A k \in 1..Len(new_names) : CandidateBase(k) \notin target_dir_files

ReturnedCall(c) == c.result = "returned"
RaisedCall(c) == c.result = "raised"

-----------------------------------------------------------------------------
(* Properties *)

\* C1: wipe_disk is entered, the prompt answered or an entry of the source
\* directory removed only when the wipe option was given, the failure list is
\* empty and the process is root; with a non-empty failure list nothing is
\* removed and every candidate is still in the source directory.
C1_WipeOnlyAfterFullCopyAsRoot ==
    /\ (pc \in {"wipe_disk", "wipe_loop"} \/ answer # <<>> \/ remove_calls # <<>>)
         => (wipe_flag /\ fail_paths = <<>> /\ uid = RootUid)
    /\ fail_paths # <<>> =>
         /\ remove_calls = <<>>
         /\ \A p \in Range(pictures_paths) :
              \E k \in 1..Len(source_dir) : EntryPath(source_dir[k]) = p

C1_Witness ==
    /\ pc = "wipe_loop"
    /\ remove_calls # <<>>
    /\ Len(copy_calls) = MaxPictures

\* C2: the mapping of create_target_filenames is one-to-one: no two candidates
\* have the same name, no name is the name of an entry the target directory
\* had when naming started, and on return every candidate has a name.
C2_MappingOneToOne ==
    /\ \A j, k \in 1..Len(new_names) :
         j # k => (AssignedName(j) # AssignedName(k) /\ CandidatePath(j) # CandidatePath(k))
    /\ \A k \in 1..Len(new_names) : AssignedName(k) \notin target_dir_files
    /\ (pc = "copy_files" \/ AfterCopyPass) =>
         [k \in 1..Len(new_names) |-> CandidatePath(k)] = pictures_paths

C2_Witness ==
    /\ pc = "copy_files"
    /\ copy_calls = <<>>
    /\ Len(new_names) >= 2
    /\ CandidateBase(1) = CandidateBase(2)
    /\ CandidateBase(1) \in target_dir_files

\* C3 as stated: every candidate gets the base name when it is free and
\* otherwise the name of the smallest free suffix; a candidate whose base name
\* is in the target directory gets suffix _1; candidates with pairwise distinct
\* modification times and no base name in the target directory get no suffix.
C3_AsStated ==
    NamingOrReturned =>
      /\ \A k \in 1..Len(new_names) : SmallestFreeName(k) /\ FirstSuffixExample(k)
      /\ ( /\ \A j, k \in 1..Len(new_names) :
                j # k => CandidateMTime(j) # CandidateMTime(k)
           /\ NoPreExistingCollision )
         => \A k \in 1..Len(new_names) : AssignedName(k) = CandidateBase(k)

\* C3: every candidate gets the base name when it is free and otherwise the
\* name of the smallest free suffix; a candidate whose base name is in the
\* target directory gets suffix _1 when that name is free; candidates with
\* pairwise distinct formatted timestamps (YYMMDD_HHMMSS) and no base name in
\* the target directory get no suffix.
C3_SmallestFreeSuffix ==
    NamingOrReturned =>
      /\ \A k \in 1..Len(new_names) : SmallestFreeName(k) /\ FirstSuffixExample(k)
      /\ ( /\ \A j, k \in 1..Len(new_names) :
                j # k => CandidateTimestamp(j) # CandidateTimestamp(k)
           /\ NoPreExistingCollision )
         => \A k \in 1..Len(new_names) : AssignedName(k) = CandidateBase(k)

C3_Witness ==
    /\ pc = "copy_files"
    /\ copy_calls = <<>>
    /\ \E k \in 1..Len(new_names) :
         /\ CandidateBase(k) \in TakenBefore(k)
         /\ Suffixed(CandidateTimestamp(k), 1, CandidateExtension(k)) \in TakenBefore(k)
         /\ AssignedName(k) = Suffixed(CandidateTimestamp(k), 2, CandidateExtension(k))

C5_AsStated ==
    AfterCopyPass =>
      /\ \A p \in Range(pictures_paths) :
           (p \in Range(success_paths)) # (p \in Range(fail_paths))
      /\ Range(success_paths) \cup Range(fail_paths) \subseteq Range(pictures_paths)
      /\ Len(success_paths) + Len(fail_paths) = Len(pictures_paths)

\* C5: after the copy pass the failure list holds candidates and the success
\* list holds the destination paths (target directory / new name) of
\* candidates; for every candidate exactly one of "its destination is in the
\* success list" and "it is in the failure list" holds; the lists share no
\* element and their sizes sum to the number of candidates.
C5_OutcomeListsPartition ==
    AfterCopyPass =>
      /\ \A k \in 1..Len(new_names) :
           (PathJoin(TargetDirPath, AssignedName(k)) \in Range(success_paths))
             # (CandidatePath(k) \in Range(fail_paths))
      /\ Range(fail_paths) \subseteq Range(pictures_paths)
      /\ Range(success_paths) \subseteq
           { PathJoin(TargetDirPath, AssignedName(k)) : k \in 1..Len(new_names) }
      /\ Range(success_paths) \cap Range(fail_paths) = {}
      /\ Cardinality(Range(success_paths)) = Len(success_paths)
      /\ Cardinality(Range(fail_paths)) = Len(fail_paths)
      /\ Len(success_paths) + Len(fail_paths) = Len(pictures_paths)

C5_Witness ==
    /\ pc = "chown"
    /\ Len(success_paths) = 1
    /\ Len(fail_paths) = 1

\* C6: after any input that is not "yes" ignoring case, wipe_disk has removed
\* nothing and the source directory holds the entries it held when wipe_disk
\* was called; entries are removed only after an input that is "yes" ignoring
\* case.
C6_DecliningKeepsSource ==
    /\ (answer # <<>> /\ Lower(answer[1]) # <<"y", "e", "s">>) =>
         /\ pc = "done"
         /\ remove_calls = <<>>
         /\ [k \in 1..Len(source_dir) |-> EntryName(source_dir[k])] = listed
    /\ remove_calls # <<>> =>
         (answer # <<>> /\ Lower(answer[1]) = <<"y", "e", "s">>)

C6_Witness ==
    /\ pc = "done"
    /\ answer = << <<"y">> >>
    /\ Len(source_dir) = MaxPictures + Len(OtherEntries)

\* C7: during the copy pass one copy has been attempted for each pair of the
\* mapping before the current one, in the order of the mapping; after it each
\* pair has had exactly one attempt, whatever failed before it; every
\* candidate whose copy failed is in the failure list.
C7_EveryCopyAttemptedOnce ==
    /\ pc = "copy_files" => Len(copy_calls) = pos - 1
    /\ AfterCopyPass => Len(copy_calls) = Len(new_names)
    /\ \A k \in 1..Len(copy_calls) :
         /\ copy_calls[k].src = CandidatePath(k)
         /\ copy_calls[k].dst = PathJoin(TargetDirPath, AssignedName(k))
         /\ RaisedCall(copy_calls[k]) => copy_calls[k].src \in Range(fail_paths)

C7_Witness ==
    /\ pc = "chown"
    /\ Len(copy_calls) = 2
    /\ RaisedCall(copy_calls[1])
    /\ ReturnedCall(copy_calls[2])

\* C8 as stated: after copy_files an ownership change to 1000:1000 has been
\* attempted for every path of the success list; the lists are those the copy
\* pass built and the run has not been stopped.
C8_AsStated ==
    AfterCopyFiles =>
      /\ \A p \in Range(success_paths) :
           \E k \in 1..Len(chown_calls) :
             chown_calls[k].path = p /\ chown_calls[k].uid = ChownId /\ chown_calls[k].gid = ChownId
      /\ raised = NoError

\* C8: copy_files attempts the ownership change to 1000:1000 on the paths of
\* the success list in list order and stops at the first attempt that fails:
\* the paths after it are not attempted.  A failed attempt is logged as a
\* warning, leaves the success and failure lists as the copy pass built them
\* and does not stop the run.
C8_ChownUntilFirstFailure ==
    /\ Len(chown_calls) <= Len(success_paths)
    /\ \A k \in 1..Len(chown_calls) :
         /\ chown_calls[k].path = success_paths[k]
         /\ chown_calls[k].uid = ChownId /\ chown_calls[k].gid = ChownId
         /\ k < Len(chown_calls) => ReturnedCall(chown_calls[k])
    /\ AfterCopyFiles =>
         (Len(chown_calls) < Len(success_paths) => RaisedCall(chown_calls[Len(chown_calls)]))
    /\ (\E k \in 1..Len(chown_calls) : RaisedCall(chown_calls[k])) =>
         /\ raised = NoError
         /\ pc \in {"decide", "wipe_disk", "wipe_loop", "done"}
         /\ "warning: Could not set ownership to the target files, continuing anyway." \in Range(log)
         /\ success_paths = [k \in 1..Len(SelectSeq(copy_calls, ReturnedCall)) |->
                               SelectSeq(copy_calls, ReturnedCall)[k].dst]
         /\ fail_paths = [k \in 1..Len(SelectSeq(copy_calls, RaisedCall)) |->
                            SelectSeq(copy_calls, RaisedCall)[k].src]

C8_Witness ==
    /\ pc = "done"
    /\ Len(success_paths) = 2
    /\ Len(chown_calls) = 1
    /\ RaisedCall(chown_calls[1])

\* C9 as stated: when the modification time of a candidate cannot be read the
\* error that ends the run carries a note, the candidate has no name and
\* nothing has been copied.
C9_AsStated ==
    raised.type \in {"OSError", "AttributeError"} =>
      /\ raised.notes # <<>>
      /\ \A k \in 1..Len(new_names) : CandidatePath(k) # pictures_paths[pos]
      /\ copy_calls = <<>>

\* the rank of a position in the order of the phases
PhaseRank(p) ==
    CASE p = "check_privileges"        -> 0
      [] p = "find_pictures"           -> 1
      [] p = "create_target_filenames" -> 2
      [] p = "copy_files"              -> 3
      [] p = "chown"                   -> 4
      [] p = "decide"                  -> 5
      [] p = "wipe_disk"               -> 6
      [] p = "wipe_loop"               -> 7
      [] p = "done"                    -> 8
      [] p = "aborted"                 -> 8

\* C10: no step returns to an earlier phase; at the first copy every candidate
\* has its name; no step changes the mapping once a copy has been attempted or
\* naming has returned; an entry of the source directory is removed only when
\* a copy has been attempted for every candidate.
C10_SinglePass ==
    [][ /\ PhaseRank(pc') >= PhaseRank(pc)
        /\ (copy_calls = <<>> /\ copy_calls' # <<>>) =>
              [k \in 1..Len(new_names) |-> CandidatePath(k)] = pictures_paths
        /\ (copy_calls # <<>> \/ PhaseRank(pc) >= 3) => new_names' = new_names
        /\ source_dir' # source_dir =>
              (Len(copy_calls) = Len(pictures_paths) /\ PhaseRank(pc) >= 6)
      ]_vars

C10_Witness ==
    /\ pc = "done"
    /\ remove_calls # <<>>
    /\ source_dir = <<>>
    /\ Len(copy_calls) = MaxPictures

====
